---- MODULE Spec2Model ----
(***************************************************************************)
(* klarfkit: the WaferMap record (src/klarfkit/klarfkit.py), its           *)
(* coordinate reconciliation and the line-driven reader read_klarf.        *)
(*                                                                         *)
(* Cell values and geometry are reals in the program; the model uses       *)
(* integers, on which the program's float arithmetic (+, -, *, floor       *)
(* division and floor modulo by a positive divisor) is exact.  A missing   *)
(* cell (pandas NaN) is a column absent from the row's domain.             *)
(* Text is modelled character by character on TLA+ strings.                *)
(***************************************************************************)
EXTENDS Integers, Sequences, FiniteSets, TLC

VARIABLES
    self,       \* the WaferMap object: [built |-> FALSE] or its attributes
    heap,       \* DataFrame objects by identity: id -> [columns, rows]
    raised,     \* exception raised by the last call, "none" if it returned
    called,     \* the last call made: [op, arg, again]; again: it repeats the call before it
    written,    \* lines to_klarf has written to file_path
    file,       \* lines of the file read_klarf is called on, when fixed beforehand
    rk,         \* locals of read_klarf and its position (rk.pc)
    seen,       \* history: per keyword, the last line read that starts with it
    other       \* a second WaferMap object of the same caller, on the same heap

vars == <<self, heap, raised, called, written, file, rk, seen, other>>

(***************************************************************************)
(* Bounds of the model                                                     *)
(***************************************************************************)
MaxRows == 2              \* rows of a caller-supplied defect table
MaxLines == 4             \* lines of a file read line by line
MaxListed == 2            \* defect rows of a minimal file

(***************************************************************************)
(* Python values                                                           *)
(***************************************************************************)
\* Python None where an object reference (a DataFrame id) is expected
NoFrame == 0

EmptyDict == [k \in {} |-> 0]

\* d[key] = value on a dict
DictSet(d, key, value) ==
    [k \in (DOMAIN d) \cup {key} |-> IF k = key THEN value ELSE d[k]]

\* a keyword argument, or the default of the signature
Arg(kwargs, name, default) ==
    IF name \in DOMAIN kwargs THEN kwargs[name] ELSE default

Range(s) == {s[k] : k \in DOMAIN s}

(***************************************************************************)
(* DataFrame: [columns |-> sequence of names, rows |-> sequence of rows],  *)
(* a row a function from column names to numbers; a NaN cell is absent     *)
(* from the row's domain.  A computed cell is a set: {} for NaN, {v}.      *)
(***************************************************************************)
HasColumn(df, c) == c \in Range(df.columns)

\* df[c] = values : one computed cell per row; the column is appended when new
SetCell(row, c, cell) ==
    [k \in ((DOMAIN row) \ {c}) \cup (IF cell = {} THEN {} ELSE {c}) |->
        IF k = c THEN CHOOSE v \in cell : TRUE ELSE row[k]]

AssignColumn(df, c, cells) ==
    [columns |-> IF HasColumn(df, c) THEN df.columns ELSE Append(df.columns, c),
     rows    |-> [r \in DOMAIN df.rows |-> SetCell(df.rows[r], c, cells[r])]]

\* (df[index] * pitch) + df[rel] - center, row by row (NaN in, NaN out)
ActualCell(row, index, rel, pitch, center) ==
    IF {index, rel} \subseteq DOMAIN row
    THEN {(row[index] * pitch) + row[rel] - center}
    ELSE {}

\* the recomputation reading the relative column in place of the actual one
RelCellOfRel(row, actual, center, pitch) ==
    LET rel == IF actual = "_XACTUAL" THEN "XREL" ELSE "YREL"
    IN  IF rel \in DOMAIN row THEN {(row[rel] + center) % pitch} ELSE {}

\* the remainder with the sign of the dividend (fmod) in place of the floor modulo
RelCellTruncated(row, actual, center, pitch) ==
    IF actual \in DOMAIN row
    THEN {IF row[actual] + center >= 0
          THEN (row[actual] + center) % pitch
          ELSE 0 - ((0 - (row[actual] + center)) % pitch)}
    ELSE {}

\* (df['_XACTUAL'] + center) % pitch
RelCell(row, actual, center, pitch) ==
    IF actual \in DOMAIN row THEN {(row[actual] + center) % pitch} ELSE {}

\* the quotient truncated towards zero in place of the floor
IndexCellTruncated(row, actual, center, pitch) ==
    IF actual \in DOMAIN row
    THEN {IF row[actual] + center >= 0
          THEN (row[actual] + center) \div pitch
          ELSE 0 - ((0 - (row[actual] + center)) \div pitch)}
    ELSE {}

\* (df['_XACTUAL'] + center) // pitch
IndexCell(row, actual, center, pitch) ==
    IF actual \in DOMAIN row THEN {(row[actual] + center) \div pitch} ELSE {}

(***************************************************************************)
(* WaferMap._calculate_actual_locations(df): the frame after the call and  *)
(* the exception it raised.  The X column is assigned before the Y one is  *)
(* evaluated.                                                              *)
(***************************************************************************)
\* a column label that occurs more than once: df[c] is then a DataFrame, and
\* assigning an expression built from it to one column raises
Duplicated(df, c) == Cardinality({k \in DOMAIN df.columns : df.columns[k] = c}) > 1

calculate_actual_locations(df, die_pitch, center_location) ==
    IF ~HasColumn(df, "XINDEX") \/ ~HasColumn(df, "XREL")
    THEN [df |-> df, raised |-> "KeyError"]
    ELSE IF Len(die_pitch) < 1 \/ Len(center_location) < 1
    THEN [df |-> df, raised |-> "IndexError"]
    ELSE IF Duplicated(df, "XINDEX") \/ Duplicated(df, "XREL")
    THEN [df |-> df, raised |-> "ValueError"]
    ELSE LET dx == AssignColumn(df, "_XACTUAL",
                     [r \in DOMAIN df.rows |->
                        ActualCell(df.rows[r], "XINDEX", "XREL",
                                   die_pitch[1], center_location[1])])
         IN  IF ~HasColumn(df, "YINDEX") \/ ~HasColumn(df, "YREL")
             THEN [df |-> dx, raised |-> "KeyError"]
             ELSE IF Len(die_pitch) < 2 \/ Len(center_location) < 2
             THEN [df |-> dx, raised |-> "IndexError"]
             ELSE IF Duplicated(df, "YINDEX") \/ Duplicated(df, "YREL")
             THEN [df |-> dx, raised |-> "ValueError"]
             ELSE [df |-> AssignColumn(dx, "_YACTUAL",
                            [r \in DOMAIN dx.rows |->
                               ActualCell(dx.rows[r], "YINDEX", "YREL",
                                          die_pitch[2], center_location[2])]),
                   raised |-> "none"]

(***************************************************************************)
(* WaferMap._update_relative_coordinates on the object's defect table:     *)
(* the heap after the call and the exception it raised.  The four column   *)
(* assignments happen in the order of the source, so an exception leaves   *)
(* the earlier ones done.  astype(int) raises on a NaN cell.               *)
(***************************************************************************)
update_relative_coordinates(obj, hp, old_die_pitch, new_die_pitch, old_center, new_center) ==
    IF Len(new_die_pitch) < 2 \/ Len(old_die_pitch) < 2
    THEN [heap |-> hp, raised |-> "IndexError"]
    ELSE IF old_die_pitch[1] = 0 \/ old_die_pitch[2] = 0
    THEN [heap |-> hp, raised |-> "ZeroDivisionError"]
    ELSE IF obj.defect_list = NoFrame
    THEN [heap |-> hp, raised |-> "TypeError"]
    ELSE LET id == obj.defect_list
             d0 == hp[id]
             d1 == AssignColumn(d0, "XREL",
                     [r \in DOMAIN d0.rows |->
                        RelCell(d0.rows[r], "_XACTUAL", new_center[1], new_die_pitch[1])])
             d2 == AssignColumn(d1, "YREL",
                     [r \in DOMAIN d1.rows |->
                        RelCell(d1.rows[r], "_YACTUAL", new_center[2], new_die_pitch[2])])
             d3 == AssignColumn(d2, "XINDEX",
                     [r \in DOMAIN d2.rows |->
                        IndexCell(d2.rows[r], "_XACTUAL", new_center[1], new_die_pitch[1])])
             d4 == AssignColumn(d3, "YINDEX",
                     [r \in DOMAIN d3.rows |->
                        IndexCell(d3.rows[r], "_YACTUAL", new_center[2], new_die_pitch[2])])
         IN  IF ~HasColumn(d0, "_XACTUAL") \/ ~HasColumn(d0, "_YACTUAL")
             THEN [heap |-> hp, raised |-> "KeyError"]
             ELSE IF \E r \in DOMAIN d2.rows : "_XACTUAL" \notin DOMAIN d2.rows[r]
             THEN [heap |-> [hp EXCEPT ![id] = d2], raised |-> "ValueError"]
             ELSE IF \E r \in DOMAIN d3.rows : "_YACTUAL" \notin DOMAIN d3.rows[r]
             THEN [heap |-> [hp EXCEPT ![id] = d3], raised |-> "ValueError"]
             ELSE [heap |-> [hp EXCEPT ![id] = d4], raised |-> "none"]

(***************************************************************************)
(* datetime.strptime(s, "%m-%d-%y %H:%M:%S") succeeds.  Timestamps of the  *)
(* model are written with two digits per field; the field ranges are       *)
(* checked as strptime checks them (the day against 31 only).              *)
(***************************************************************************)
Digits == {"0", "1", "2", "3", "4", "5", "6", "7", "8", "9"}

Char(s, k) == SubSeq(s, k, k)

DigitValue(c) ==
    CASE c = "0" -> 0 [] c = "1" -> 1 [] c = "2" -> 2 [] c = "3" -> 3 [] c = "4" -> 4
      [] c = "5" -> 5 [] c = "6" -> 6 [] c = "7" -> 7 [] c = "8" -> 8 [] c = "9" -> 9

TwoDigits(s, k) == (10 * DigitValue(Char(s, k))) + DigitValue(Char(s, k + 1))

strptime_ok(s) ==
    /\ Len(s) = 17
    /\ \A k \in {1, 2, 4, 5, 7, 8, 10, 11, 13, 14, 16, 17} : Char(s, k) \in Digits
    /\ Char(s, 3) = "-" /\ Char(s, 6) = "-" /\ Char(s, 9) = " "
    /\ Char(s, 12) = ":" /\ Char(s, 15) = ":"
    /\ TwoDigits(s, 1) \in 1..12
    /\ TwoDigits(s, 4) \in 1..31
    /\ TwoDigits(s, 10) \in 0..23
    /\ TwoDigits(s, 13) \in 0..59
    /\ TwoDigits(s, 16) \in 0..61

(***************************************************************************)
(* str.upper() on the letters the model's texts use                        *)
(***************************************************************************)
UpperChar(c) ==
    CASE c = "a" -> "A" [] c = "b" -> "B" [] c = "c" -> "C" [] c = "d" -> "D"
      [] c = "e" -> "E" [] c = "f" -> "F" [] c = "g" -> "G" [] c = "h" -> "H"
      [] c = "i" -> "I" [] c = "j" -> "J" [] c = "k" -> "K" [] c = "l" -> "L"
      [] c = "m" -> "M" [] c = "n" -> "N" [] c = "o" -> "O" [] c = "p" -> "P"
      [] c = "q" -> "Q" [] c = "r" -> "R" [] c = "s" -> "S" [] c = "t" -> "T"
      [] c = "u" -> "U" [] c = "v" -> "V" [] c = "w" -> "W" [] c = "x" -> "X"
      [] c = "y" -> "Y" [] c = "z" -> "Z" [] OTHER -> c

RECURSIVE upper(_)
upper(s) == IF s = "" THEN "" ELSE UpperChar(Char(s, 1)) \o upper(Tail(s))

(***************************************************************************)
(* WaferMap.__init__ called with keyword arguments kwargs: the object, the *)
(* heap (the DataFrame passed in is stored by reference and gets its     *)
(* _XACTUAL, _YACTUAL columns in place) and the exception raised.         *)
(***************************************************************************)
NotBuilt == [built |-> FALSE]

OrientationMarkers == {"NOTCH", "FLAT"}

\* the test without the upper-casing
orientation_marker_ok_as_written(marker) == marker \in OrientationMarkers

\* orientation_marker.upper() in ['NOTCH','FLAT']
orientation_marker_ok(marker) == upper(marker) \in OrientationMarkers

\* another default pitch
OtherDiePitch == <<1000, 1000>>

DefaultDiePitch == <<10000, 10000>>
DefaultCenterLocation == <<150000, 150000>>
DefaultDieOrigin == <<0, 0>>
DefaultSampleSize == 300000
DefaultSlot == 1

WaferMap(hp, kwargs) ==
    LET die_pitch       == Arg(kwargs, "die_pitch", DefaultDiePitch)
        center_location == Arg(kwargs, "sample_center_location", DefaultCenterLocation)
        defect_record   == Arg(kwargs, "defect_record", NoFrame)
        marker          == Arg(kwargs, "orientation_marker", "NOTCH")
        calc == IF defect_record = NoFrame
                THEN [df |-> <<>>, raised |-> "none"]
                ELSE calculate_actual_locations(hp[defect_record], die_pitch, center_location)
        hp1  == IF defect_record = NoFrame THEN hp
                ELSE [hp EXCEPT ![defect_record] = calc.df]
        obj  == [built              |-> TRUE,
                 die_pitch          |-> die_pitch,
                 sample_size        |-> Arg(kwargs, "sample_size", DefaultSampleSize),
                 die_origin         |-> Arg(kwargs, "die_origin", DefaultDieOrigin),
                 center_location    |-> center_location,
                 defect_list        |-> defect_record,
                 file_version       |-> Arg(kwargs, "file_version", "1 1"),
                 file_timestamp     |-> Arg(kwargs, "file_timestamp", "now"),
                 inspection_station |-> Arg(kwargs, "inspection_station", "\"klarfkit\" \"v0.0.4\""),
                 sample_type        |-> Arg(kwargs, "sample_type", "WAFER"),
                 result_timestamp   |-> Arg(kwargs, "result_timestamp", "now"),
                 lot_id             |-> Arg(kwargs, "lot_id", "XXXX"),
                 setup_id           |-> Arg(kwargs, "setup_id", "None"),
                 step_id            |-> Arg(kwargs, "step_id", "None"),
                 orientation_marker |-> upper(marker),
                 orientation        |-> Arg(kwargs, "orientation", "DOWN"),
                 class_lookup       |-> Arg(kwargs, "class_lookup", EmptyDict),
                 sample_test_plan   |-> Arg(kwargs, "sample_test_plan", <<>>),
                 wafer_id           |-> Arg(kwargs, "wafer_id", "XXXXXXXXXXX"),
                 slot               |-> Arg(kwargs, "slot", DefaultSlot)]
    IN  IF calc.raised # "none"
        THEN [self |-> NotBuilt, heap |-> hp1, raised |-> calc.raised]
        ELSE IF \E t \in {"file_timestamp", "result_timestamp"} :
                   /\ t \in DOMAIN kwargs
                   /\ kwargs[t] # ""
                   /\ ~strptime_ok(kwargs[t])
        THEN [self |-> NotBuilt, heap |-> hp1, raised |-> "ValueError"]
        ELSE IF ~orientation_marker_ok(marker)
        THEN [self |-> NotBuilt, heap |-> hp1, raised |-> "ValueError"]
        ELSE [self |-> obj, heap |-> hp1, raised |-> "none"]

(***************************************************************************)
(* The property setters: the object, the heap and the exception raised.    *)
(* The attribute is assigned only when the recomputation returned.         *)
(***************************************************************************)
\* the setter recomputing the actual locations from the stale relative ones
set_die_pitch_recalculating(obj, hp, value) ==
    LET calc == IF obj.defect_list = NoFrame
                THEN [df |-> <<>>, raised |-> "TypeError"]
                ELSE calculate_actual_locations(hp[obj.defect_list], value, obj.center_location)
    IN  [self   |-> IF calc.raised = "none" THEN [obj EXCEPT !.die_pitch = value] ELSE obj,
         heap   |-> IF obj.defect_list = NoFrame THEN hp
                    ELSE [hp EXCEPT ![obj.defect_list] = calc.df],
         raised |-> calc.raised]

set_die_pitch(obj, hp, value) ==
    LET upd == IF Len(obj.die_pitch) > 0
               THEN update_relative_coordinates(obj, hp, obj.die_pitch, value,
                                                obj.center_location, obj.center_location)
               ELSE [heap |-> hp, raised |-> "none"]
    IN  [self   |-> IF upd.raised = "none" THEN [obj EXCEPT !.die_pitch = value] ELSE obj,
         heap   |-> upd.heap,
         raised |-> upd.raised]

set_center_location(obj, hp, value) ==
    LET upd == IF Len(obj.center_location) > 0
               THEN update_relative_coordinates(obj, hp, obj.die_pitch, obj.die_pitch,
                                                obj.center_location, value)
               ELSE [heap |-> hp, raised |-> "none"]
    IN  [self   |-> IF upd.raised = "none" THEN [obj EXCEPT !.center_location = value] ELSE obj,
         heap   |-> upd.heap,
         raised |-> upd.raised]

\* the setter re-basing the table on the origin as on a new centre
set_die_origin_recomputing(obj, hp, value) ==
    LET res == set_center_location(obj, hp, value)
    IN  [self   |-> [res.self EXCEPT !.die_origin = value],
         heap   |-> res.heap,
         raised |-> res.raised]

set_die_origin(obj, hp, value) ==
    [self |-> [obj EXCEPT !.die_origin = value], heap |-> hp, raised |-> "none"]

\* to_klarf raises before it writes anything: NotImplemented is not callable
to_klarf(obj, content) == [written |-> content, raised |-> "TypeError"]

(***************************************************************************)
(* A WaferMap built by its caller and then used: the inputs                *)
(***************************************************************************)
CoordinateColumns == <<"XINDEX", "YINDEX", "XREL", "YREL">>

\* rows a caller supplies: XREL inside and outside [0, pitch), negative indices
DefectRows ==
    { [XINDEX |-> 0,  YINDEX |-> 0,  XREL |-> 1,  YREL |-> 1],
      [XINDEX |-> 1,  YINDEX |-> -1, XREL |-> 0,  YREL |-> 2],
      [XINDEX |-> -1, YINDEX |-> 2,  XREL |-> 7,  YREL |-> -1] }

DefectTables ==
    { [columns |-> CoordinateColumns, rows |-> rows] :
        rows \in UNION { [1..n -> DefectRows] : n \in 0..MaxRows } }

\* geometry values assigned or passed by the caller; pitch components positive
Pitches == { <<2, 3>>, <<3, 2>>, <<5, 4>> }
Centers == { <<0, 0>>, <<1, 2>>, <<4, 3>> }
Origins == { <<0, 0>>, <<1, 1>> }

\* the keyword arguments of a direct construction
CallerKwargs(frame) ==
    { g @@ m @@ d :
        g \in { EmptyDict } \cup
              { ("die_pitch" :> p) @@ ("sample_center_location" :> c) :
                    p \in Pitches, c \in Centers },
        m \in { EmptyDict, ("orientation_marker" :> "EDGE") },
        d \in { IF frame = NoFrame THEN EmptyDict ELSE ("defect_record" :> frame) } }

(***************************************************************************)
(* Python str methods, on TLA+ strings.  Whitespace in the model's texts   *)
(* is the space character.                                                 *)
(***************************************************************************)
Whitespace == {" "}

RECURSIVE replace_with_empty(_, _)
\* s.replace(c, '') for a one-character c
replace_with_empty(s, c) ==
    IF s = "" THEN ""
    ELSE (IF Char(s, 1) = c THEN "" ELSE Char(s, 1)) \o replace_with_empty(Tail(s), c)

RECURSIVE lstrip(_, _)
lstrip(s, chars) ==
    IF s # "" /\ Char(s, 1) \in chars THEN lstrip(Tail(s), chars) ELSE s

RECURSIVE rstrip(_, _)
rstrip(s, chars) ==
    IF s # "" /\ Char(s, Len(s)) \in chars
    THEN rstrip(SubSeq(s, 1, Len(s) - 1), chars)
    ELSE s

\* s.strip() with chars = Whitespace, s.strip('"') with chars = {"\""}
strip(s, chars) == rstrip(lstrip(s, chars), chars)

\* sub in s
Contains(s, sub) ==
    \E k \in 1..(Len(s) - Len(sub) + 1) : SubSeq(s, k, k + Len(sub) - 1) = sub

RECURSIVE SpaceFrom(_, _)
\* position of the first space of s at or after position k, 0 when there is none
SpaceFrom(s, k) ==
    IF k > Len(s) THEN 0
    ELSE IF Char(s, k) = " " THEN k
    ELSE SpaceFrom(s, k + 1)

\* position of the first space of s, 0 when it has none
FirstSpace(s) == SpaceFrom(s, 1)

RECURSIVE split_space(_)
\* s.split(" "): a piece between every two spaces, empty pieces kept
split_space(s) ==
    LET p == FirstSpace(s)
    IN  IF p = 0 THEN <<s>>
        ELSE <<SubSeq(s, 1, p - 1)>> \o split_space(SubSeq(s, p + 1, Len(s)))

NonEmpty(t) == t # ""

\* s.split(): the pieces between runs of whitespace
split(s) == SelectSeq(split_space(s), NonEmpty)

\* s.split(" ", maxsplit = 1)[-1]
split_once_last(s) ==
    LET p == FirstSpace(s)
    IN  IF p = 0 THEN s ELSE SubSeq(s, p + 1, Len(s))

\* s[:-1]
drop_last(s) == SubSeq(s, 1, Len(s) - 1)

\* seq[k:] with k counted from 0
SliceFrom(seq, k) == SubSeq(seq, k + 1, Len(seq))

(***************************************************************************)
(* int(s) and float(s): whether the text converts, and its value.  The     *)
(* model's numbers are integers, so a float text of the model has a        *)
(* fractional part of zeros (300.000); its value is the integer part.      *)
(***************************************************************************)
AllDigits(s) == \A k \in 1..Len(s) : Char(s, k) \in Digits

RECURSIVE NatValue(_)
NatValue(s) ==
    IF s = "" THEN 0
    ELSE (10 * NatValue(SubSeq(s, 1, Len(s) - 1))) + DigitValue(Char(s, Len(s)))

Unsigned(s) == IF s # "" /\ Char(s, 1) \in {"-", "+"} THEN Tail(s) ELSE s

Signed(s, n) == IF s # "" /\ Char(s, 1) = "-" THEN 0 - n ELSE n

int_ok(s) ==
    LET t == Unsigned(strip(s, Whitespace)) IN t # "" /\ AllDigits(t)

int_value(s) ==
    LET t == strip(s, Whitespace) IN Signed(t, NatValue(Unsigned(t)))

\* position of the decimal point of s, 0 when it has none
PointAt(s) ==
    IF \E k \in 1..Len(s) : Char(s, k) = "."
    THEN CHOOSE k \in 1..Len(s) : Char(s, k) = "." /\ \A j \in 1..(k - 1) : Char(s, j) # "."
    ELSE 0

IntegerPart(s) == IF PointAt(s) = 0 THEN s ELSE SubSeq(s, 1, PointAt(s) - 1)

FractionPart(s) == IF PointAt(s) = 0 THEN "" ELSE SubSeq(s, PointAt(s) + 1, Len(s))

float_ok(s) ==
    LET t == Unsigned(strip(s, Whitespace))
    IN  /\ AllDigits(IntegerPart(t))
        /\ AllDigits(FractionPart(t))
        /\ IntegerPart(t) \o FractionPart(t) # ""

float_value(s) ==
    LET t == strip(s, Whitespace) IN Signed(t, NatValue(IntegerPart(Unsigned(t))))

(***************************************************************************)
(* read_klarf: the locals before the loop                                  *)
(***************************************************************************)
RkStart ==
    [pc                  |-> "loop",
     error               |-> "none",
     n                   |-> 0,
     i                   |-> "",
     payload             |-> EmptyDict,
     cols                |-> <<>>,
     defects             |-> <<>>,
     class_lookup        |-> EmptyDict,
     sample_test_plan    |-> <<>>,
     defect_collect      |-> FALSE,
     sample_plan_collect |-> FALSE,
     classes_collect     |-> FALSE,
     nrows               |-> 0,
     count_rows          |-> 0]

\* read_klarf is not running
RkIdle == [RkStart EXCEPT !.pc = "idle"]

\* i.strip().replace(';','').replace('"', '') of a line of the file
normalise(raw) ==
    replace_with_empty(replace_with_empty(strip(raw, Whitespace), ";"), "\"")

\* get_row_value(row)
get_row_value(row) == strip(split_once_last(row), {"\""})

(***************************************************************************)
(* The if/elif chain of the loop tests keywords by containment, in this    *)
(* order; Branch is the first keyword the line contains, "" when none.     *)
(***************************************************************************)
KeywordChain ==
    << "FileVersion", "FileTimestamp", "InspectionStationID", "SampleType",
       "ResultTimestamp", "LotID", "SampleSize", "SetupID", "StepID",
       "OrientationMarkType", "OrientationMarkLocation", "DiePitch", "DieOrigin",
       "WaferID", "Slot", "CenterLocation", "ClassLookup", "InspectionTest",
       "SampleTestPlan", "AreaPerTest", "DefectRecordSpec", "DefectList",
       "SummarySpec" >>

RECURSIVE FirstKeyword(_, _)
FirstKeyword(line, k) ==
    IF k > Len(KeywordChain) THEN ""
    ELSE IF Contains(line, KeywordChain[k]) THEN KeywordChain[k]
    ELSE FirstKeyword(line, k + 1)

\* the chain with the collection modes tested before its SummarySpec test
BranchBeforeSummarySpec(line) ==
    IF FirstKeyword(line, 1) = "SummarySpec" THEN "" ELSE FirstKeyword(line, 1)

Branch(line) == FirstKeyword(line, 1)

\* the payload key a scalar keyword's branch stores get_row_value under
ScalarKey ==
    [ FileVersion |-> "file_version", FileTimestamp |-> "file_timestamp",
      InspectionStationID |-> "inspection_station", SampleType |-> "sample_type",
      ResultTimestamp |-> "result_timestamp", LotID |-> "lot_id",
      SetupID |-> "setup_id", StepID |-> "step_id",
      OrientationMarkType |-> "orientation_marker",
      OrientationMarkLocation |-> "orientation", WaferID |-> "wafer_id",
      Slot |-> "slot", InspectionTest |-> "inspection_test" ]

\* the payload key of a keyword whose branch stores a list of floats
PairKey ==
    [ DiePitch |-> "die_pitch", DieOrigin |-> "die_origin",
      CenterLocation |-> "sample_center_location" ]

Raise(st, kind) == [st EXCEPT !.pc = "raised", !.error = kind]

FloatList(tokens) == [k \in DOMAIN tokens |-> float_value(tokens[k])]

IntList(tokens) == [k \in DOMAIN tokens |-> int_value(tokens[k])]

Last(seq) == seq[Len(seq)]

\* rows collected whether or not a DefectList line opened the list
defect_collect_always(st) == TRUE

\* defect rows collected only while no sample plan is being collected
defect_collect_outside_plan(st) == st.defect_collect /\ ~st.sample_plan_collect

\* elif defect_collect:
defect_collect_active(st) == st.defect_collect

(***************************************************************************)
(* One iteration of the loop of read_klarf on the normalised line: the     *)
(* locals after it.  An exception ends read_klarf (pc = "raised").         *)
(***************************************************************************)
loop_body(st, line) ==
    LET s0 == [st EXCEPT !.i = line, !.n = st.n + 1]
        kw == Branch(line)
    IN
    IF kw \in DOMAIN ScalarKey
    THEN [s0 EXCEPT !.payload = DictSet(s0.payload, ScalarKey[kw], get_row_value(line))]
    ELSE IF kw = "SampleSize"
    THEN IF float_ok(Last(split_space(line)))
         THEN [s0 EXCEPT !.payload = DictSet(s0.payload, "sample_size",
                                             float_value(Last(split_space(line))) * 1000)]
         ELSE Raise(s0, "ValueError")
    ELSE IF kw \in DOMAIN PairKey
    THEN LET tokens == SliceFrom(split_space(line), 1)
         IN  IF \A k \in DOMAIN tokens : float_ok(tokens[k])
             THEN [s0 EXCEPT !.payload = DictSet(s0.payload, PairKey[kw], FloatList(tokens))]
             ELSE Raise(s0, "ValueError")
    ELSE IF kw = "ClassLookup"
    THEN IF int_ok(get_row_value(line))
         THEN [s0 EXCEPT !.nrows = int_value(get_row_value(line)),
                         !.count_rows = 0,
                         !.classes_collect = TRUE]
         ELSE Raise(s0, "ValueError")
    ELSE IF kw = "SampleTestPlan"
    THEN IF int_ok(Last(split(line)))
         THEN [s0 EXCEPT !.nrows = int_value(Last(split(line))),
                         !.count_rows = 0,
                         !.sample_plan_collect = TRUE]
         ELSE Raise(s0, "ValueError")
    ELSE IF kw = "AreaPerTest"
    THEN IF float_ok(get_row_value(line))
         THEN [s0 EXCEPT !.payload = DictSet(s0.payload, "area_per_test",
                                             float_value(get_row_value(line)))]
         ELSE Raise(s0, "ValueError")
    ELSE IF kw = "DefectRecordSpec"
    THEN [s0 EXCEPT !.cols = s0.cols \o SliceFrom(split(drop_last(line)), 2)]
    ELSE IF kw = "DefectList"
    THEN [s0 EXCEPT !.defect_collect = TRUE]
    ELSE IF kw = "SummarySpec"
    THEN [s0 EXCEPT !.defect_collect = FALSE]
    ELSE IF defect_collect_active(s0)
    THEN [s0 EXCEPT !.defects = Append(s0.defects, split(replace_with_empty(line, ";")))]
    ELSE IF s0.sample_plan_collect
    THEN LET tokens == split(replace_with_empty(line, ";"))
         IN  IF \A k \in DOMAIN tokens : int_ok(tokens[k])
             THEN [s0 EXCEPT !.sample_test_plan = Append(s0.sample_test_plan, IntList(tokens)),
                             !.count_rows = s0.count_rows + 1,
                             !.sample_plan_collect = (s0.count_rows + 1 # s0.nrows)]
             ELSE Raise(s0, "ValueError")
    ELSE IF s0.classes_collect
    THEN IF s0.count_rows = s0.nrows
         THEN [s0 EXCEPT !.classes_collect = FALSE]
         ELSE LET tokens == split(line)
              IN  IF Len(tokens) = 2 /\ int_ok(tokens[1])
                  THEN [s0 EXCEPT !.class_lookup = DictSet(s0.class_lookup, int_value(tokens[1]),
                                                           replace_with_empty(tokens[2], "\"")),
                                  !.count_rows = s0.count_rows + 1]
                  ELSE Raise(s0, "ValueError")
    ELSE s0

(***************************************************************************)
(* pd.DataFrame(defects, columns = cols).astype(float): rows shorter than  *)
(* the widest are padded with NaN; the widest must have one token per      *)
(* column name, and every token must convert.                              *)
(***************************************************************************)
Widest(rows) ==
    IF rows = <<>> THEN 0
    ELSE CHOOSE w \in {Len(rows[r]) : r \in DOMAIN rows} :
            \A r \in DOMAIN rows : Len(rows[r]) <= w

FrameRow(tokens, columns) ==
    [c \in {columns[k] : k \in DOMAIN tokens} |->
        float_value(tokens[CHOOSE k \in DOMAIN tokens :
                             /\ columns[k] = c
                             /\ \A j \in DOMAIN tokens : columns[j] = c => j <= k])]

DataFrame(rows, columns) ==
    IF Widest(rows) # Len(columns)
    THEN [df |-> <<>>, raised |-> "ValueError"]
    ELSE IF \E r \in DOMAIN rows : \E k \in DOMAIN rows[r] : ~float_ok(rows[r][k])
    THEN [df |-> <<>>, raised |-> "ValueError"]
    ELSE [df |-> [columns |-> columns,
                  rows    |-> [r \in DOMAIN rows |-> FrameRow(rows[r], columns)]],
          raised |-> "none"]

(***************************************************************************)
(* read_klarf after the loop: the payload is completed and the record is   *)
(* constructed from it.  The result: locals, object, heap, exception.      *)
(***************************************************************************)
finish(st, hp) ==
    LET build == IF st.defects # <<>> THEN DataFrame(st.defects, st.cols)
                 ELSE [df |-> <<>>, raised |-> "none"]
        hp1   == IF st.defects # <<>> THEN Append(hp, build.df) ELSE hp
        p1    == IF st.defects # <<>>
                 THEN DictSet(st.payload, "defect_record", Len(hp1)) ELSE st.payload
        p2    == IF st.sample_test_plan # <<>>
                 THEN DictSet(p1, "sample_test_plan", st.sample_test_plan) ELSE p1
        p3    == IF DOMAIN st.class_lookup # {}
                 THEN DictSet(p2, "class_lookup", st.class_lookup) ELSE p2
        res   == WaferMap(hp1, p3)
    IN  IF build.raised # "none"
        THEN [rk |-> Raise(st, build.raised), self |-> NotBuilt, heap |-> hp,
              raised |-> build.raised]
        ELSE IF res.raised # "none"
        THEN [rk |-> Raise([st EXCEPT !.payload = p3], res.raised), self |-> NotBuilt,
              heap |-> res.heap, raised |-> res.raised]
        ELSE [rk |-> [st EXCEPT !.payload = p3, !.pc = "returned"], self |-> res.self,
              heap |-> res.heap, raised |-> "none"]

RECURSIVE iterate(_, _)
\* the loop over the lines of a whole file
iterate(st, lines) ==
    IF lines = <<>> \/ st.pc # "loop" THEN st
    ELSE iterate(loop_body(st, normalise(Head(lines))), Tail(lines))

\* read_klarf on a whole file
read_klarf(lines, hp) ==
    LET st == iterate(RkStart, lines)
    IN  IF st.pc = "raised"
        THEN [rk |-> st, self |-> NotBuilt, heap |-> hp, raised |-> st.error]
        ELSE finish(st, hp)

(***************************************************************************)
(* Specification SpecRecord: a WaferMap constructed by its caller, then    *)
(* its geometry assigned and to_klarf called, in any order.                *)
(***************************************************************************)
CallerHeaps == { <<>> } \cup { <<t>> : t \in DefectTables }

InitRecord ==
    \E hp \in CallerHeaps : \E kwargs \in CallerKwargs(Len(hp)) :
        LET res == WaferMap(hp, kwargs)
        IN  /\ self = res.self
            /\ heap = res.heap
            /\ raised = res.raised
            /\ called = [op |-> "__init__", arg |-> <<>>, again |-> FALSE]
            /\ written = <<>>
            /\ file = <<>>
            /\ rk = RkIdle
            /\ seen = EmptyDict
            /\ other = NotBuilt

\* the record of a call, given the call before it
Call(op, arg) ==
    [op |-> op, arg |-> arg, again |-> (called.op = op /\ called.arg = arg)]

SetDiePitch ==
    \E value \in Pitches :
        LET res == set_die_pitch(self, heap, value)
        IN  /\ self.built
            /\ self' = res.self
            /\ heap' = res.heap
            /\ raised' = res.raised
            /\ called' = Call("die_pitch", value)
            /\ UNCHANGED <<written, file, rk, seen, other>>

SetCenterLocation ==
    \E value \in Centers :
        LET res == set_center_location(self, heap, value)
        IN  /\ self.built
            /\ self' = res.self
            /\ heap' = res.heap
            /\ raised' = res.raised
            /\ called' = Call("center_location", value)
            /\ UNCHANGED <<written, file, rk, seen, other>>

SetDieOrigin ==
    \E value \in Origins :
        LET res == set_die_origin(self, heap, value)
        IN  /\ self.built
            /\ self' = res.self
            /\ heap' = res.heap
            /\ raised' = res.raised
            /\ called' = Call("die_origin", value)
            /\ UNCHANGED <<written, file, rk, seen, other>>

ToKlarf ==
    LET res == to_klarf(self, written)
    IN  /\ self.built
        /\ written' = res.written
        /\ raised' = res.raised
        /\ called' = Call("to_klarf", <<>>)
        /\ UNCHANGED <<self, heap, file, rk, seen, other>>

NextRecord == SetDiePitch \/ SetCenterLocation \/ SetDieOrigin \/ ToKlarf

SpecRecord == InitRecord /\ [][NextRecord]_vars

(***************************************************************************)
(* Specification Spec: read_klarf reading a file line by line; the file is *)
(* any sequence of at most MaxLines of the lines FileLines.                *)
(***************************************************************************)
FileLines ==
    { "DiePitch 2 3;",
      "CenterLocation 1 2;",
      "DefectRecordSpec 4 XINDEX YINDEX XREL YREL;",
      "DefectRecordSpec 4 XINDEX YINDEX XREL YREL ;",
      "DefectList",
      "1 -1 0 2;",
      "0 0 1",
      "SummarySpec 0;",
      "OrientationMarkType flat;",
      "OrientationMarkType EDGE;",
      "OrientationMarkLocation BOGUS;",
      "WaferID LotID123;",
      "ClassLookup 1;",
      "SampleTestPlan 1;",
      "TiffFileName a.tif;" }

\* the keywords of the fields with a documented default, and a line's first token
FieldKeywords ==
    { "CenterLocation", "DiePitch", "DieOrigin", "OrientationMarkType",
      "OrientationMarkLocation", "FileVersion", "SampleType", "LotID", "SampleSize",
      "WaferID", "Slot" }

LeadingToken(line) == IF split(line) = <<>> THEN "" ELSE Head(split(line))

Init ==
    /\ self = NotBuilt
    /\ heap = <<>>
    /\ raised = "none"
    /\ called = [op |-> "read_klarf", arg |-> <<>>, again |-> FALSE]
    /\ written = <<>>
    /\ file = <<>>
    /\ rk = RkStart
    /\ seen = EmptyDict
    /\ other = NotBuilt

ReadLine ==
    \E raw \in FileLines :
        LET line == normalise(raw)
            lead == LeadingToken(line)
        IN  /\ rk.pc = "loop"
            /\ rk.n < MaxLines
            /\ rk' = loop_body(rk, line)
            /\ raised' = rk'.error
            /\ seen' = IF lead \in FieldKeywords THEN DictSet(seen, lead, line) ELSE seen
            /\ UNCHANGED <<self, heap, called, written, file, other>>

EndOfFile ==
    LET res == finish(rk, heap)
    IN  /\ rk.pc = "loop"
        /\ rk' = res.rk
        /\ self' = res.self
        /\ heap' = res.heap
        /\ raised' = res.raised
        /\ UNCHANGED <<called, written, file, seen, other>>

Next == ReadLine \/ EndOfFile

Spec == Init /\ [][Next]_vars

(***************************************************************************)
(* Properties of the record (SpecRecord)                                   *)
(***************************************************************************)
HasTable == self.built /\ self.defect_list # NoFrame

\* the rows of the object's defect table
Rows == heap[self.defect_list].rows

ActualColumns == {"_XACTUAL", "_YACTUAL"}

Identity(row, die_pitch, center_location) ==
    /\ {"XINDEX", "YINDEX", "XREL", "YREL", "_XACTUAL", "_YACTUAL"} \subseteq DOMAIN row
    /\ (row["XINDEX"] * die_pitch[1]) + row["XREL"] - center_location[1] = row["_XACTUAL"]
    /\ (row["YINDEX"] * die_pitch[2]) + row["YREL"] - center_location[2] = row["_YACTUAL"]

GeometryCall(op) == op \in {"die_pitch", "center_location"}

\* C2: a die_pitch or center_location assignment on a record with a defect
\* table leaves the number and order of the rows and every row's XACTUAL and
\* YACTUAL unchanged; only XINDEX, YINDEX, XREL, YREL and the assigned
\* attribute may change.
C2_AssignmentFrame ==
    [][ (HasTable /\ GeometryCall(called'.op)) =>
            /\ self'.defect_list = self.defect_list
            /\ DOMAIN heap' = DOMAIN heap
            /\ heap'[self.defect_list].columns = heap[self.defect_list].columns
            /\ DOMAIN heap'[self.defect_list].rows = DOMAIN Rows
            /\ \A r \in DOMAIN Rows :
                  /\ DOMAIN heap'[self.defect_list].rows[r] = DOMAIN Rows[r]
                  /\ \A c \in (DOMAIN Rows[r]) \ {"XINDEX", "YINDEX", "XREL", "YREL"} :
                        heap'[self.defect_list].rows[r][c] = Rows[r][c]
            /\ \A a \in (DOMAIN self) \ {called'.op} : self'[a] = self[a]
            /\ written' = written ]_vars

\* C2 witness: an assignment has renumbered the row XINDEX = -1, XREL = 7 of a
\* two-row table built with pitch 2 (XACTUAL 5) to XINDEX = 1, XREL = 0.
C2_Witness ==
    /\ HasTable
    /\ GeometryCall(called.op) /\ raised = "none"
    /\ Len(Rows) = 2
    /\ self.die_pitch = <<5, 4>> /\ self.center_location = <<0, 0>>
    /\ \E r \in DOMAIN Rows :
          Rows[r]["_XACTUAL"] = 5 /\ Rows[r]["XINDEX"] = 1 /\ Rows[r]["XREL"] = 0

\* C4: assigning die_pitch = p immediately after an assignment die_pitch = p
\* leaves every row's XINDEX, YINDEX, XREL, YREL as the first one left them.
C4_RebasingIdempotent ==
    [][ (HasTable /\ called.op = "die_pitch" /\ called'.op = "die_pitch"
            /\ called'.arg = called.arg) =>
            /\ heap' = heap
            /\ self' = self
            /\ raised' = "none" ]_vars

\* C4 witness: the second of two equal die_pitch assignments has been made on
\* a table whose first row was renumbered by the first.
C4_Witness ==
    /\ HasTable
    /\ called.op = "die_pitch" /\ called.again /\ raised = "none"
    /\ Len(Rows) > 0
    /\ self.center_location = <<1, 2>>
    /\ Rows[1]["XINDEX"] # 0 /\ Rows[1]["XREL"] # 0

\* C11: assigning die_origin changes only the die_origin attribute: the
\* defect table (every row's XINDEX, YINDEX, XREL, YREL, XACTUAL, YACTUAL)
\* and the record's die_pitch, center_location and other attributes are
\* unchanged, and the call raises nothing.
C11_DieOriginFrame ==
    [][ called'.op = "die_origin" =>
            /\ heap' = heap
            /\ raised' = "none"
            /\ self'.die_origin = called'.arg
            /\ \A a \in (DOMAIN self) \ {"die_origin"} : self'[a] = self[a]
            /\ written' = written ]_vars

\* C11 witness: die_origin was assigned (1, 1) on a record with a table
\* whose geometry differs from the origin and that has a row off the origin.
C11_Witness ==
    /\ HasTable
    /\ called.op = "die_origin" /\ raised = "none"
    /\ self.die_origin = <<1, 1>>
    /\ self.die_pitch = <<5, 4>> /\ self.center_location = <<4, 3>>
    /\ \E r \in DOMAIN Rows : Rows[r]["XINDEX"] = -1 /\ Rows[r]["_XACTUAL"] = -2

\* C19 as claimed: on a record constructed without a defect table, assigning
\* die_pitch = p or center_location = c raises nothing and leaves the
\* attribute equal to the value assigned.
C19_EmptyShellGeometry ==
    [][ (self.built /\ self.defect_list = NoFrame /\ GeometryCall(called'.op)) =>
            /\ raised' = "none"
            /\ self'.die_pitch = (IF called'.op = "die_pitch" THEN called'.arg
                                  ELSE self.die_pitch)
            /\ self'.center_location = (IF called'.op = "center_location" THEN called'.arg
                                        ELSE self.center_location) ]_vars

Normalized(row, die_pitch, center_location) ==
    /\ {"XINDEX", "YINDEX", "XREL", "YREL", "_XACTUAL", "_YACTUAL"} \subseteq DOMAIN row
    /\ 0 <= row["XREL"] /\ row["XREL"] < die_pitch[1]
    /\ 0 <= row["YREL"] /\ row["YREL"] < die_pitch[2]
    /\ row["XINDEX"] * die_pitch[1] <= row["_XACTUAL"] + center_location[1]
    /\ row["_XACTUAL"] + center_location[1] < (row["XINDEX"] + 1) * die_pitch[1]
    /\ row["YINDEX"] * die_pitch[2] <= row["_YACTUAL"] + center_location[2]
    /\ row["_YACTUAL"] + center_location[2] < (row["YINDEX"] + 1) * die_pitch[2]

\* C20: after an assignment of die_pitch or center_location (pitch
\* components positive) every row has 0 <= XREL < pitch.x, 0 <= YREL <
\* pitch.y, XINDEX = floor((XACTUAL + center.x) / pitch.x) and YINDEX =
\* floor((YACTUAL + center.y) / pitch.y), also where XACTUAL + center.x is
\* negative; and assigning die_pitch its current value changes XINDEX and
\* XREL of every row whose XREL was outside [0, pitch.x), as the rows of a
\* newly constructed record may be.
C20_NormalizedEncoding ==
    [][ /\ (HasTable /\ GeometryCall(called'.op)) =>
              /\ raised' = "none"
              /\ \A r \in DOMAIN Rows :
                    Normalized(heap'[self.defect_list].rows[r],
                               self'.die_pitch, self'.center_location)
        /\ (HasTable /\ called'.op = "die_pitch" /\ called'.arg = self.die_pitch) =>
              \A r \in DOMAIN Rows :
                  (Rows[r]["XREL"] < 0 \/ Rows[r]["XREL"] >= self.die_pitch[1]) =>
                      /\ heap'[self.defect_list].rows[r]["XREL"] # Rows[r]["XREL"]
                      /\ heap'[self.defect_list].rows[r]["XINDEX"] # Rows[r]["XINDEX"] ]_vars

\* C20 witness: a center_location assignment has put a row at XACTUAL +
\* center.x = -2 < 0 with pitch.x = 5: XINDEX = -1 (the floor, not 0) and
\* XREL = 3.
C20_Witness ==
    /\ HasTable
    /\ called.op = "center_location" /\ raised = "none"
    /\ self.die_pitch = <<5, 4>> /\ self.center_location = <<0, 0>>
    /\ \E r \in DOMAIN Rows :
          Rows[r]["_XACTUAL"] = -2 /\ Rows[r]["XINDEX"] = -1 /\ Rows[r]["XREL"] = 3


(***************************************************************************)
(* Specification SpecMinimal: read_klarf called on a minimal file, written *)
(* from the parameters the call record keeps.                              *)
(***************************************************************************)
MinimalRows == DefectRows \cup { [XINDEX |-> 0, YINDEX |-> 0, XREL |-> 500, YREL |-> 500] }

MinimalParameters ==
    [ size   : { [text |-> "300.000", value |-> 300], [text |-> "200", value |-> 200] },
      pitch  : Pitches \cup { <<10000, 10000>> },
      center : Centers \cup { <<150000, 150000>> },
      rows   : UNION { [1..n -> MinimalRows] : n \in 0..MaxListed } ]

RowLine(row) ==
    ToString(row["XINDEX"]) \o " " \o ToString(row["YINDEX"]) \o " "
        \o ToString(row["XREL"]) \o " " \o ToString(row["YREL"]) \o ";"

MinimalFile(par) ==
    << "SampleSize " \o par.size.text \o ";",
       "DiePitch " \o ToString(par.pitch[1]) \o " " \o ToString(par.pitch[2]) \o ";",
       "CenterLocation " \o ToString(par.center[1]) \o " " \o ToString(par.center[2]) \o ";",
       "DefectRecordSpec 2 XINDEX YINDEX XREL YREL;",
       "DefectList;" >>
    \o [r \in DOMAIN par.rows |-> RowLine(par.rows[r])]
    \o << "SummarySpec 0;" >>

InitMinimal ==
    \E par \in MinimalParameters :
        /\ self = NotBuilt
        /\ heap = <<>>
        /\ raised = "none"
        /\ called = [op |-> "open", arg |-> par, again |-> FALSE]
        /\ written = <<>>
        /\ file = MinimalFile(par)
        /\ rk = RkIdle
        /\ seen = EmptyDict
        /\ other = NotBuilt

ReadKlarf ==
    LET res == read_klarf(file, heap)
    IN  /\ rk.pc = "idle"
        /\ rk' = res.rk
        /\ self' = res.self
        /\ heap' = res.heap
        /\ raised' = res.raised
        /\ called' = [called EXCEPT !.op = "read_klarf"]
        /\ UNCHANGED <<written, file, seen, other>>

NextMinimal == ReadKlarf

SpecMinimal == InitMinimal /\ [][NextMinimal]_vars

\* C3: a minimal file (SampleSize s; DiePitch px py; CenterLocation cx cy;
\* DefectRecordSpec 2 XINDEX YINDEX XREL YREL; DefectList; rows xi yi xr yr;
\* SummarySpec 0; each ';' directly after the last token) parses to a record
\* with sampleSize = s*1000 and one defect row per listed row, with
\* XACTUAL = xi*px + xr - cx and YACTUAL = yi*py + yr - cy.
C3_MinimalFile ==
    called.op = "read_klarf" =>
        LET par == called.arg
        IN  /\ raised = "none"
            /\ self.built
            /\ self.sample_size = par.size.value * 1000
            /\ par.rows # <<>> =>
                  /\ self.defect_list # NoFrame
                  /\ Len(Rows) = Len(par.rows)
                  /\ \A r \in DOMAIN par.rows :
                        /\ {"_XACTUAL", "_YACTUAL"} \subseteq DOMAIN Rows[r]
                        /\ Rows[r]["_XACTUAL"] =
                              (par.rows[r]["XINDEX"] * par.pitch[1])
                                  + par.rows[r]["XREL"] - par.center[1]
                        /\ Rows[r]["_YACTUAL"] =
                              (par.rows[r]["YINDEX"] * par.pitch[2])
                                  + par.rows[r]["YREL"] - par.center[2]

(***************************************************************************)
(* Properties of read_klarf (Spec)                                         *)
(***************************************************************************)
\* the step that ends the loop and constructs the record
EndStep == rk.pc = "loop" /\ rk'.pc # "loop" /\ rk'.n = rk.n

\* the step that reads one line
ReadStep == rk.pc = "loop" /\ rk'.n = rk.n + 1

\* C5: construction with an orientation_marker that is not NOTCH or FLAT in
\* some letter case fails and yields no record; NOTCH or FLAT in any letter
\* case is accepted and stored in upper case, so a constructed record has
\* orientation_marker in {NOTCH, FLAT}; the orientation is stored as given.
C5_OrientationMarker ==
    [][ EndStep =>
          LET marker == Arg(rk.payload, "orientation_marker", "NOTCH")
              valid  == marker \in {"NOTCH", "FLAT", "notch", "flat", "Notch", "Flat"}
          IN  /\ ~valid => (~self'.built /\ raised' # "none" /\ rk'.pc = "raised")
              /\ self'.built =>
                    /\ self'.orientation_marker \in {"NOTCH", "FLAT"}
                    /\ marker \in {"NOTCH", "notch", "Notch"} => self'.orientation_marker = "NOTCH"
                    /\ marker \in {"FLAT", "flat", "Flat"} => self'.orientation_marker = "FLAT"
                    /\ self'.orientation = Arg(rk.payload, "orientation", "DOWN")
              /\ (valid /\ rk.defects = <<>>
                    /\ "file_timestamp" \notin DOMAIN rk.payload
                    /\ "result_timestamp" \notin DOMAIN rk.payload)
                 => (self'.built /\ raised' = "none" /\ rk'.pc = "returned") ]_vars

\* C5 witness: a record built from OrientationMarkType flat and
\* OrientationMarkLocation BOGUS.
C5_Witness ==
    /\ rk.pc = "returned" /\ self.built
    /\ "orientation_marker" \in DOMAIN rk.payload /\ rk.payload["orientation_marker"] = "flat"
    /\ self.orientation_marker = "FLAT"
    /\ self.orientation = "BOGUS"

MissingGeometry ==
    "die_pitch" \notin DOMAIN rk.payload \/ "sample_center_location" \notin DOMAIN rk.payload

FieldName ==
    [ CenterLocation |-> "center_location", DiePitch |-> "die_pitch",
      DieOrigin |-> "die_origin", OrientationMarkType |-> "orientation_marker",
      OrientationMarkLocation |-> "orientation", FileVersion |-> "file_version",
      SampleType |-> "sample_type", LotID |-> "lot_id", SampleSize |-> "sample_size",
      WaferID |-> "wafer_id", Slot |-> "slot" ]

DocumentedDefault ==
    [ CenterLocation |-> <<150000, 150000>>, DiePitch |-> <<10000, 10000>>,
      DieOrigin |-> <<0, 0>>, OrientationMarkType |-> "NOTCH",
      OrientationMarkLocation |-> "DOWN", FileVersion |-> "1 1",
      SampleType |-> "WAFER", LotID |-> "XXXX", SampleSize |-> 300000,
      WaferID |-> "XXXXXXXXXXX", Slot |-> 1 ]

\* the value a keyword's line gives its field
LineValue(keyword, line) ==
    IF keyword \in {"CenterLocation", "DiePitch", "DieOrigin"}
    THEN FloatList(SliceFrom(split_space(line), 1))
    ELSE IF keyword = "SampleSize"
    THEN float_value(Last(split_space(line))) * 1000
    ELSE IF keyword = "OrientationMarkType"
    THEN upper(get_row_value(line))
    ELSE get_row_value(line)

\* C7 as claimed: in a record read from a file, a field whose keyword starts
\* no line of the file holds its documented default, and a field whose
\* keyword starts a line holds the value of the last such line.
C7_DefaultsAndLastOccurrence ==
    (rk.pc = "returned" /\ self.built) =>
        \A keyword \in FieldKeywords :
            self[FieldName[keyword]] =
                IF keyword \in DOMAIN seen
                THEN LineValue(keyword, seen[keyword])
                ELSE DocumentedDefault[keyword]

RecognizedKeywords ==
    { "FileVersion", "FileTimestamp", "InspectionStationID", "SampleType",
      "ResultTimestamp", "LotID", "SampleSize", "SetupID", "StepID",
      "OrientationMarkType", "OrientationMarkLocation", "DiePitch", "DieOrigin",
      "WaferID", "Slot", "CenterLocation", "ClassLookup", "InspectionTest",
      "SampleTestPlan", "AreaPerTest", "DefectRecordSpec", "DefectList",
      "SummarySpec" }

\* the lines without a recognized keyword among the lines the files are made of
UnrecognizedLines ==
    { line \in { normalise(raw) : raw \in FileLines } :
        \A keyword \in RecognizedKeywords : ~Contains(line, keyword) }

Unrecognized(line) == line \in UnrecognizedLines

\* the parse result is what the step found
ResultUnchanged ==
    /\ rk'.payload = rk.payload
    /\ rk'.cols = rk.cols
    /\ rk'.defects = rk.defects
    /\ rk'.sample_test_plan = rk.sample_test_plan
    /\ rk'.class_lookup = rk.class_lookup

\* C8 as claimed: reading a line that contains no recognized keyword raises
\* no error and leaves the scalar and geometry fields, the column list and
\* the row buffers unchanged, in whichever parser state it is read.
C8_UnrecognizedIgnored ==
    [][ (ReadStep /\ Unrecognized(rk'.i)) =>
            (rk'.pc = "loop" /\ rk'.error = "none" /\ ResultUnchanged) ]_vars

\* C8 amended: a line that contains no recognized keyword is ignored only
\* while no collection mode is active: then it raises no error and changes
\* nothing but the current line.  While defect collection is active it is
\* appended to the defect rows as a row of its tokens; while only sample-plan
\* collection is active and a token of it is not an integer, it is an error.
C8_UnrecognizedOutsideCollection ==
    [][ (ReadStep /\ Unrecognized(rk'.i)) =>
          LET tokens == split(replace_with_empty(rk'.i, ";"))
          IN  /\ (~rk.defect_collect /\ ~rk.sample_plan_collect /\ ~rk.classes_collect)
                    => rk' = [rk EXCEPT !.i = rk'.i, !.n = rk.n + 1]
              /\ rk.defect_collect
                    => rk' = [rk EXCEPT !.i = rk'.i, !.n = rk.n + 1,
                                        !.defects = Append(rk.defects, tokens)]
              /\ (~rk.defect_collect /\ rk.sample_plan_collect
                     /\ \E k \in DOMAIN tokens : ~int_ok(tokens[k]))
                    => (rk'.pc = "raised" /\ rk'.error = "ValueError"
                          /\ raised' = "ValueError" /\ ResultUnchanged) ]_vars

\* C8 witness: an unrecognized line has been read outside every collection
\* mode, after lines that set a field and the column list.
C8_Witness ==
    /\ rk.pc = "loop" /\ rk.i = "TiffFileName a.tif"
    /\ ~rk.defect_collect /\ ~rk.sample_plan_collect /\ ~rk.classes_collect
    /\ rk.error = "none"
    /\ DOMAIN rk.payload # {} /\ rk.cols # <<>>

(***************************************************************************)
(* Properties of to_klarf (SpecRecord)                                     *)
(***************************************************************************)
ScalarFields ==
    { "die_pitch", "sample_size", "die_origin", "center_location", "file_version",
      "inspection_station", "sample_type", "lot_id", "setup_id", "step_id",
      "orientation_marker", "orientation", "wafer_id", "slot" }

\* C9 as claimed: to_klarf writes the record, and read_klarf of what was
\* written yields a record with the same scalar fields and the same
\* XACTUAL, YACTUAL in every row.
C9_RoundTrip ==
    called.op = "to_klarf" =>
        LET back == read_klarf(written, heap)
        IN  /\ raised = "none"
            /\ back.raised = "none"
            /\ \A f \in ScalarFields : back.self[f] = self[f]
            /\ (back.self.defect_list # NoFrame) = HasTable
            /\ HasTable =>
                  LET rows == back.heap[back.self.defect_list].rows
                  IN  /\ Len(rows) = Len(Rows)
                      /\ \A r \in DOMAIN Rows :
                            /\ rows[r]["_XACTUAL"] = Rows[r]["_XACTUAL"]
                            /\ rows[r]["_YACTUAL"] = Rows[r]["_YACTUAL"]

(***************************************************************************)
(* Properties of the line dispatch of read_klarf (Spec)                    *)
(***************************************************************************)
\* C12 as claimed: a line DefectRecordSpec n c1 ... ck; with or without a
\* space before the ';' adds exactly c1, ..., ck, in order and each name
\* complete, to the column-name list.
C12_ColumnList ==
    [][ (ReadStep /\ LeadingToken(rk'.i) = "DefectRecordSpec") =>
            rk'.cols = rk.cols \o SliceFrom(split(rk'.i), 2) ]_vars

\* the keyword a line starts with, "" when its first token is none
LeadingKeyword(line) ==
    IF LeadingToken(line) \in RecognizedKeywords THEN LeadingToken(line) ELSE ""

\* C13 as claimed: a line is classified by the keyword it starts with, not
\* by a keyword it contains elsewhere: the branch taken for it is the one of
\* its first token (none when the first token is no keyword), so the line
\* WaferID LotID123 sets wafer_id and nothing else.
C13_LeadingToken ==
    [][ ReadStep =>
            /\ Branch(rk'.i) = LeadingKeyword(rk'.i)
            /\ LeadingToken(rk'.i) = "WaferID" =>
                  rk'.payload = DictSet(rk.payload, "wafer_id", get_row_value(rk'.i)) ]_vars

BuffersChanged ==
    Cardinality({ b \in {"defects", "sample_test_plan", "class_lookup"} : rk'[b] # rk[b] })

\* C14: in every parser state a line that contains a recognized keyword is
\* never appended to the defect, sample-plan or class-lookup buffer but gets
\* the keyword's action (DefectList and SummarySpec switch defect collection
\* on and off, SampleTestPlan n and ClassLookup n open their mode with the
\* count n and zero rows seen, DiePitch stores the pitch); and every line
\* is appended to at most one buffer.
C14_KeywordsFirst ==
    [][ ReadStep =>
          LET line == rk'.i
              lead == LeadingToken(line)
          IN  /\ ~Unrecognized(line) => BuffersChanged = 0
              /\ BuffersChanged <= 1
              /\ lead = "DefectList" => (rk'.defect_collect /\ rk'.pc = "loop")
              /\ lead = "SummarySpec" => (~rk'.defect_collect /\ rk'.pc = "loop")
              /\ lead = "SampleTestPlan" =>
                    /\ rk'.sample_plan_collect /\ rk'.pc = "loop"
                    /\ rk'.nrows = int_value(Last(split(line))) /\ rk'.count_rows = 0
              /\ lead = "ClassLookup" =>
                    /\ rk'.classes_collect /\ rk'.pc = "loop"
                    /\ rk'.nrows = int_value(Last(split(line))) /\ rk'.count_rows = 0
              /\ lead = "DiePitch" =>
                    /\ rk'.pc = "loop"
                    /\ rk'.payload = DictSet(rk.payload, "die_pitch",
                                             FloatList(SliceFrom(split_space(line), 1))) ]_vars

\* C14 witness: with the three collection modes active, a DiePitch line has
\* been read: the pitch is stored and no buffer holds the line.
C14_Witness ==
    /\ rk.pc = "loop" /\ rk.i = "DiePitch 2 3"
    /\ rk.defect_collect /\ rk.sample_plan_collect /\ rk.classes_collect
    /\ rk.defects = <<>> /\ rk.sample_test_plan = <<>> /\ DOMAIN rk.class_lookup = {}
    /\ rk.payload = ("die_pitch" :> <<2, 3>>)

\* C15: defect collection is off at the start, is switched on by a
\* DefectList line and stays on until a SummarySpec line is read or the
\* input ends; a line without keyword read while it is on is appended to
\* the defect rows, after the rows already there, whether or not a sample
\* plan or class lookup is being collected, and these get nothing of it;
\* while it is off no line is appended to the defect rows.
C15_DefectSpan ==
    [][ /\ ReadStep =>
              LET line == rk'.i
                  lead == LeadingToken(line)
              IN  /\ rk.n = 0 => ~rk.defect_collect
                  /\ lead = "DefectList" => rk'.defect_collect
                  /\ lead = "SummarySpec" => ~rk'.defect_collect
                  /\ lead \notin {"DefectList", "SummarySpec"} =>
                        rk'.defect_collect = rk.defect_collect
                  /\ (rk.defect_collect /\ Unrecognized(line)) =>
                        /\ rk'.defects = Append(rk.defects, split(replace_with_empty(line, ";")))
                        /\ rk'.sample_test_plan = rk.sample_test_plan
                        /\ rk'.class_lookup = rk.class_lookup
                        /\ rk'.count_rows = rk.count_rows
                        /\ rk'.pc = "loop"
                  /\ ~rk.defect_collect => rk'.defects = rk.defects
        /\ EndStep => (rk'.defects = rk.defects /\ rk'.defect_collect = rk.defect_collect) ]_vars

\* C15 witness: DefectList, two rows and SummarySpec have been read: the
\* rows are buffered in input order and collection is off.
C15_Witness ==
    /\ rk.pc = "loop" /\ rk.i = "SummarySpec 0"
    /\ ~rk.defect_collect
    /\ rk.defects = << <<"1", "-1", "0", "2">>, <<"0", "0", "1">> >>

\* C17 as claimed: when a buffered defect row has a number of tokens other
\* than the number of column names, read_klarf fails and returns no record;
\* when no row was buffered, no table is built and the record has none.
C17_WidthCheck ==
    (rk.pc = "returned") =>
        /\ \A r \in DOMAIN rk.defects : Len(rk.defects[r]) = Len(rk.cols)
        /\ rk.defects = <<>> => (self.built /\ self.defect_list = NoFrame)

(***************************************************************************)
(* Specification SpecBlocks: read_klarf reading a file of ClassLookup and  *)
(* SampleTestPlan blocks line by line.  The history seen keeps, for the    *)
(* last ClassLookup and the last SampleTestPlan line, the count the line   *)
(* declared and the size its buffer had when the line was read.            *)
(***************************************************************************)
BlockLines ==
    { "ClassLookup 0;",
      "ClassLookup 1;",
      "SampleTestPlan 0;",
      "SampleTestPlan 2;",
      "1 2;",
      "7 \"Scratch\"",
      "3 Slot" }

BlockKeywords == {"ClassLookup", "SampleTestPlan"}

BufferSize(st, keyword) ==
    IF keyword = "SampleTestPlan" THEN Len(st.sample_test_plan)
    ELSE Cardinality(DOMAIN st.class_lookup)

ReadBlockLine ==
    \E raw \in BlockLines :
        LET line == normalise(raw)
            lead == LeadingToken(line)
        IN  /\ rk.pc = "loop"
            /\ rk.n < MaxLines
            /\ rk' = loop_body(rk, line)
            /\ raised' = rk'.error
            /\ seen' = IF lead \in BlockKeywords
                       THEN DictSet(seen, lead, [declared |-> int_value(Last(split(line))),
                                                 size     |-> BufferSize(rk, lead)])
                       ELSE seen
            /\ UNCHANGED <<self, heap, called, written, file, other>>

NextBlocks == ReadBlockLine \/ EndOfFile

SpecBlocks == Init /\ [][NextBlocks]_vars

\* C16 as claimed: after a line ClassLookup n or SampleTestPlan n, n >= 0,
\* the number of rows added to the class lookup, respectively the sample
\* plan, never exceeds n, whichever lines follow.
C16_DeclaredCount ==
    \A keyword \in BlockKeywords :
        keyword \in DOMAIN seen =>
            BufferSize(rk, keyword) - seen[keyword].size <= seen[keyword].declared

(***************************************************************************)
(* Specification SpecShared: a caller holds a record built on its defect   *)
(* table and builds a second record, on the same DataFrame object or on a  *)
(* copy of it, and assigns the second record's geometry.                   *)
(***************************************************************************)
SharedCenters == { <<0, 0>>, <<1, 2>> }

SharedKwargs(frame) ==
    { ("die_pitch" :> p) @@ ("sample_center_location" :> c) @@ ("defect_record" :> frame) :
        p \in Pitches, c \in SharedCenters }

InitShared ==
    \E t \in DefectTables : \E kwargs \in SharedKwargs(1) :
        LET res == WaferMap(<<t>>, kwargs)
        IN  /\ Len(t.rows) > 0
            /\ self = res.self
            /\ heap = res.heap
            /\ raised = res.raised
            /\ called = [op |-> "__init__", arg |-> <<>>, again |-> FALSE]
            /\ written = <<>>
            /\ file = <<>>
            /\ rk = RkIdle
            /\ seen = EmptyDict
            /\ other = NotBuilt

\* other = WaferMap(defect_record = df, ...) or WaferMap(defect_record = df.copy(), ...)
ConstructOther ==
    \E copy \in BOOLEAN : \E kwargs \in SharedKwargs(IF copy THEN 2 ELSE 1) :
        LET hp  == IF copy THEN Append(heap, heap[1]) ELSE heap
            res == WaferMap(hp, kwargs)
        IN  /\ self.built /\ ~other.built
            /\ Len(heap) = 1
            /\ other' = res.self
            /\ heap' = res.heap
            /\ raised' = res.raised
            /\ called' = Call("other.__init__", kwargs)
            /\ UNCHANGED <<self, written, file, rk, seen>>

SetOtherDiePitch ==
    \E value \in Pitches :
        LET res == set_die_pitch(other, heap, value)
        IN  /\ other.built
            /\ other' = res.self
            /\ heap' = res.heap
            /\ raised' = res.raised
            /\ called' = Call("other.die_pitch", value)
            /\ UNCHANGED <<self, written, file, rk, seen>>

SetOtherCenterLocation ==
    \E value \in SharedCenters :
        LET res == set_center_location(other, heap, value)
        IN  /\ other.built
            /\ other' = res.self
            /\ heap' = res.heap
            /\ raised' = res.raised
            /\ called' = Call("other.center_location", value)
            /\ UNCHANGED <<self, written, file, rk, seen>>

NextShared == ConstructOther \/ SetOtherDiePitch \/ SetOtherCenterLocation

SpecShared == InitShared /\ [][NextShared]_vars

\* C18 as claimed: constructing another record, or assigning its die_pitch
\* or center_location, never changes the defect rows observed through this
\* record nor its coordinate identity, also when both records were built
\* from the same caller-supplied table.
C18_ExclusiveOwnership ==
    [][ HasTable =>
            /\ heap'[self.defect_list] = heap[self.defect_list]
            /\ \A r \in DOMAIN heap'[self.defect_list].rows :
                  Identity(heap'[self.defect_list].rows[r],
                           self'.die_pitch, self'.center_location) ]_vars

====
